---- MODULE Spec2Model ----
(***************************************************************************)
(* A model of the reactive engine of src/src/reactive.rs (Reactive<T>, a   *)
(* cell behind an RwLock with getter/setter observer lists) and            *)
(* src/src/scope.rs (Scope: the effect stack `functions`, the dependency   *)
(* map `map`, and the two listeners installed on every scope cell).        *)
(*                                                                         *)
(* Every call of the program is a frame on the calling thread's stack; a   *)
(* step is taken at each lock acquisition, each observer call and each     *)
(* return, so that a lock held across a call is visible in the state.      *)
(* A thread whose next step needs a lock it cannot get has no step.        *)
(*                                                                         *)
(* Specifications: Spec (a single caller), SpecMT (two callers), SpecTree  *)
(* (a single caller and a lineage of scopes), SpecId (a single caller that *)
(* also constructs cells by Default), SpecDrop (a single caller that also  *)
(* drops its handles of cells) and SpecReaders (two callers of value() and *)
(* a third caller that updates and registers).                             *)
(***************************************************************************)
EXTENDS Integers, Sequences, FiniteSets, TLC

\* ------------------------------------------------------------- bounds
\* Calls a thread makes from its top level.
MaxOps == 3
\* Cells that may exist (Init constructs two of them).
MaxCells == 3
\* Calls each of the two threads makes when both are calling.
MaxOpsMT == 2
\* Scopes that may exist (Init constructs one of them).
MaxScopes == 3

Threads == {1, 2, 3}
None == 0 - 1

VARIABLES
    ID,                \* reactive.rs ID: next cell id
    id,                \* cell -> Reactive.id, the number its ReactiveId holds
    held,              \* cells the callers hold a handle to
    EFFECT_ID,         \* scope.rs EFFECT_ID: next effect id
    SCOPE_ID,          \* scope.rs ID: next scope id
    value,             \* cell id -> ReactiveInner.value
    getter_observers,  \* cell id -> ReactiveInner.getter_observers
    setter_observers,  \* cell id -> ReactiveInner.setter_observers
    inner,             \* cell id -> state of the cell's RwLock
    parent,            \* scope id -> Scope.parent (None for a root)
    functions,         \* scope id -> Scope.functions, the effect stack
    map,               \* scope id -> Scope.map: cell id -> set of effects
    functionsLock,     \* scope id -> state of the RwLock around functions
    mapLock,           \* scope id -> state of the RwLock around map
    effectF,           \* effect id -> Effect.f, the closure (a body)
    stack,             \* thread -> its call stack, innermost frame last
    ret,               \* thread -> the value the last value() returned
    gotParent,         \* thread -> its last get_parent(): on which scope, the result
    nops,              \* thread -> calls made from the top level so far
    initReads,         \* history: effect -> cells its closure read in its initial run
    registered,        \* history: effects whose effect() call has returned
    createdBy,         \* history: effect -> effect whose closure called effect() for it
    retSeen,           \* history: thread -> values the cell held during its last value()
    rerunReads,        \* history: effect -> cells its closure read when re-invoked
    viaScope,          \* history: effect -> scope whose effect() registered it
    createdFrom        \* history: scope -> scope whose create_child() made it

vars == <<ID, id, held, EFFECT_ID, SCOPE_ID, value, getter_observers,
          setter_observers, inner, parent, functions, map, functionsLock,
          mapLock, effectF, stack, ret, gotParent, nops, initReads,
          registered, createdBy, retSeen, rerunReads, viaScope, createdFrom>>

cellIds == <<ID, id, held>>
cellVars == <<cellIds, value, getter_observers, setter_observers>>
scopeIds == <<SCOPE_ID, parent, createdFrom>>
rets == <<ret, gotParent>>
histVars == <<initReads, registered, createdBy, retSeen, rerunReads, viaScope>>

\* ------------------------------------------------------------- RwLock
\* std::sync::RwLock, as built for Linux (the futex lock): one writer, or
\* any number of read guards.  A thread may hold several read guards of one
\* lock (the guards are counted).  q is the lock's writers-waiting mark: a
\* write() that finds the lock taken sets it before it sleeps, no read()
\* is granted while it is set (not to a thread that holds a read guard of
\* the lock already either), and the unlock that leaves the lock free
\* clears it and wakes the sleepers, which ask again.
Unlocked == [w |-> None, r |-> [t \in Threads |-> 0], q |-> FALSE]

\* A slip: a Mutex-like lock, the read guards of different threads exclude
\* one another.
CanReadExclusive(l, t) ==
    l.w = None /\ ~l.q /\ \A u \in Threads \ {t} : l.r[u] = 0

CanRead(l, t) == l.w = None /\ ~l.q

CanWrite(l, t) == l.w = None /\ \A u \in Threads : l.r[u] = 0

AcquireRead(l, t) == [l EXCEPT !.r[t] = @ + 1]

\* The last read guard to go leaves the lock free.
ReleaseRead(l, t) ==
    LET m == [l EXCEPT !.r[t] = @ - 1]
    IN  IF \A u \in Threads : m.r[u] = 0 THEN [m EXCEPT !.q = FALSE] ELSE m

AcquireWrite(l, t) == [l EXCEPT !.w = t]

ReleaseWrite(l, t) == [l EXCEPT !.w = None, !.q = FALSE]

\* A write() that cannot be granted marks the lock and sleeps.
WriteWait(l) == [l EXCEPT !.q = TRUE]

\* ------------------------------------------------------------- closures
\* The transforms handed to update, and the closures handed to effect.
Id == [op |-> "id", k |-> 0, d |-> None]

Inc == [op |-> "inc", k |-> 1, d |-> None]

Const(k) == [op |-> "const", k |-> k, d |-> None]

\* |_| d.value() + k
ReadPlus(d, k) == [op |-> "readplus", k |-> k, d |-> d]

\* |_| value, with `value` the local the closure read just before
Captured == [op |-> "captured", k |-> 0, d |-> None]

\* The statements of a closure.  `when` is the condition, on the value the
\* closure read last, under which the statement is executed.
Rd(c) ==
    [op |-> "read", c |-> c, f |-> Id, s |-> None, b |-> <<>>,
     when |-> "always"]

\* if <the value read last> == 0 { c.value(); }, or > 0 for w = "pos"
RdWhen(c, w) == [Rd(c) EXCEPT !.when = w]

Upd(c, f) ==
    [op |-> "update", c |-> c, f |-> f, s |-> None, b |-> <<>>,
     when |-> "always"]

Eff(s, b) ==
    [op |-> "effect", c |-> None, f |-> Id, s |-> s, b |-> b,
     when |-> "always"]

\* The condition w on the value r.
Holds(w, r) ==
    CASE w = "zero" -> r = 0
      [] w = "pos" -> r > 0
      [] OTHER -> TRUE

\* || { c.value(); }
ReadBody(c) == <<Rd(c)>>

\* || dst.update(|_| src.value() + 10)
DeriveBody(src, dst) == <<Upd(dst, ReadPlus(src, 10))>>

\* || { src.value(); let value = src.value(); dst.update(|_| value); }
CopyBody(src, dst) == <<Rd(src), Rd(src), Upd(dst, Captured)>>

\* || { c.value(); c.update(|_| 0); }
ResetBody(c) == <<Rd(c), Upd(c, Const(0))>>

\* || c.update(|x| x + 1)
WriteBody(c) == <<Upd(c, Inc)>>

\* || { if a.value() > 0 { d.value(); } }
BranchBody(a, d) == <<Rd(a), RdWhen(d, "pos")>>

\* || { if d.value() == 0 { a.value(); } }
OnceBody(d, a) == <<Rd(d), RdWhen(a, "zero")>>

\* || { scope.effect(|| { c.value(); }); }
NestBody(s, c) == <<Eff(s, ReadBody(c))>>

\* || { scope.effect(|| { d.value(); }); c.value(); }
NestReadBody(s, d, c) == <<Eff(s, ReadBody(d)), Rd(c)>>

\* The cells of which closure b captured a handle, and the scopes.
RECURSIVE CellsOf(_)
CellsOf(b) ==
    IF b = <<>> THEN {}
    ELSE LET st == Head(b) IN
         (CASE st.op = "read" -> {st.c}
            [] st.op = "update" ->
                  {st.c} \cup (IF st.f.op = "readplus" THEN {st.f.d} ELSE {})
            [] OTHER -> CellsOf(st.b))
         \cup CellsOf(Tail(b))

RECURSIVE ScopesOf(_)
ScopesOf(b) ==
    IF b = <<>> THEN {}
    ELSE LET st == Head(b) IN
         (IF st.op = "effect" THEN {st.s} \cup ScopesOf(st.b) ELSE {})
         \cup ScopesOf(Tail(b))

\* The closures the callers register: over the two cells of Init.
Bodies ==
    {ReadBody(c) : c \in {0, 1}}
    \cup {DeriveBody(0, 1), DeriveBody(1, 0), CopyBody(0, 1)}
    \cup {ResetBody(c) : c \in {0, 1}}
    \cup {WriteBody(c) : c \in {0, 1}}
    \cup {NestBody(0, c) : c \in {0, 1}}
    \cup {NestReadBody(0, 1, 0)}
    \cup {BranchBody(0, 1), OnceBody(0, 1)}

\* The transforms the callers pass to update.
Transforms == {Id, Inc, Const(0)}

\* f applied to the stored value x; r is what f's own read returned.
Apply(f, x, r) ==
    CASE f.op = "id" -> x
      [] f.op = "inc" -> x + 1
      [] f.op = "const" -> f.k
      [] f.op = "readplus" -> r + f.k
      [] OTHER -> x

\* ------------------------------------------------------------- frames
Frame0 ==
    [k |-> "none", pc |-> "none", c |-> None, s |-> None, e |-> None,
     f |-> Id, b |-> <<>>, i |-> 0, old |-> 0, new |-> 0, changed |-> FALSE,
     fired |-> <<>>, inv |-> {}, pre |-> {}, todo |-> {}, n0 |-> 0,
     n1 |-> 0, init |-> FALSE, seen |-> {}]

Top(t) == stack[t][Len(stack[t])]

Push(st, fr) == Append(st, fr)

Pop(st) == SubSeq(st, 1, Len(st) - 1)

SetTop(st, fr) == [st EXCEPT ![Len(st)] = fr]

At(t, k, pc) == stack[t] # <<>> /\ Top(t).k = k /\ Top(t).pc = pc

\* The effect whose initial run is executing the innermost closure of st.
Owner(st) ==
    LET js == {j \in 1..Len(st) : st[j].k = "call"}
    IN  IF js = {} THEN None
        ELSE LET j == CHOOSE x \in js : \A y \in js : y <= x
             IN  IF st[j].init THEN st[j].e ELSE None

\* The effect whose closure is executing innermost on st, if any.
Caller(st) ==
    LET js == {j \in 1..Len(st) : st[j].k = "call"}
    IN  IF js = {} THEN None
        ELSE st[CHOOSE x \in js : \A y \in js : y <= x].e

\* Reactive::value on cell c, called by the closure of effect `owner`.
\* seen records, for the claims, the values the cell holds during the call.
ValueFrame(c, owner) ==
    [Frame0 EXCEPT !.k = "value", !.pc = "lock", !.c = c, !.e = owner,
                   !.seen = {value[c]}]

\* Reactive::update on cell c with transform f.  n0 and pre record, for the
\* claims, what was registered when the call began (n1: the observers
\* there were when the call stored its value).
UpdateFrame(c, f) ==
    [Frame0 EXCEPT !.k = "update", !.pc = "lock", !.c = c, !.f = f,
                   !.n0 = Len(setter_observers[c]),
                   !.pre = {e \in registered : c \in initReads[e]}]

EffectFrame(s, b) ==
    [Frame0 EXCEPT !.k = "effect", !.pc = "new", !.s = s, !.b = b]

CallFrame(e, b, init) ==
    [Frame0 EXCEPT !.k = "call", !.pc = "run", !.e = e, !.b = b, !.i = 1,
                   !.init = init]

\* A slip: every read-listener works on the stack and map of the first
\* scope.
GetListenFrameShared(s, c) ==
    [Frame0 EXCEPT !.k = "get_listen", !.pc = "last", !.s = 0, !.c = c]

GetListenFrame(s, c) ==
    [Frame0 EXCEPT !.k = "get_listen", !.pc = "last", !.s = s, !.c = c]

SetListenFrame(s, c) ==
    [Frame0 EXCEPT !.k = "set_listen", !.pc = "get", !.s = s, !.c = c]

AddObserverFrame(c) ==
    [Frame0 EXCEPT !.k = "add_observer", !.pc = "lock", !.c = c]

\* ------------------------------------------------------------- observers
\* The listener pair Scope::reactive installs, and a caller's own pair.
Listen(s) == [kind |-> "listen", s |-> s]

Plain == [kind |-> "plain", s |-> None]

\* The cells constructed so far are numbered 0, 1, ..: the next one.
NextCell == Cardinality(DOMAIN value)

\* A cell is constructed with value v, observers obs and the id i; the
\* caller holds its handle.
NewCell(v, obs, i) ==
    LET n == NextCell IN
    /\ value' = [c \in 0..n |-> IF c = n THEN v ELSE value[c]]
    /\ getter_observers' =
           [c \in 0..n |-> IF c = n THEN obs ELSE getter_observers[c]]
    /\ setter_observers' =
           [c \in 0..n |-> IF c = n THEN obs ELSE setter_observers[c]]
    /\ inner' = [c \in 0..n |-> IF c = n THEN Unlocked ELSE inner[c]]
    /\ id' = [c \in 0..n |-> IF c = n THEN i ELSE id[c]]
    /\ held' = held \cup {n}

\* ------------------------------------------------------------- Init
\* let mut scope = Scope::new(); let a = scope.reactive(0);
\* let b = scope.reactive(0);
Init ==
    /\ ID = 2
    /\ id = [c \in 0..1 |-> c]
    /\ held = {0, 1}
    /\ EFFECT_ID = 0
    /\ SCOPE_ID = 1
    /\ value = [c \in 0..1 |-> 0]
    /\ getter_observers = [c \in 0..1 |-> <<Listen(0)>>]
    /\ setter_observers = [c \in 0..1 |-> <<Listen(0)>>]
    /\ inner = [c \in 0..1 |-> Unlocked]
    /\ parent = [s \in 0..0 |-> None]
    /\ functions = [s \in 0..0 |-> <<>>]
    /\ map = [s \in 0..0 |-> <<>>]
    /\ functionsLock = [s \in 0..0 |-> Unlocked]
    /\ mapLock = [s \in 0..0 |-> Unlocked]
    /\ effectF = <<>>
    /\ stack = [t \in Threads |-> <<>>]
    /\ ret = [t \in Threads |-> 0]
    /\ gotParent = [t \in Threads |-> [of |-> None, is |-> None]]
    /\ nops = [t \in Threads |-> 0]
    /\ initReads = <<>>
    /\ registered = {}
    /\ createdBy = <<>>
    /\ retSeen = [t \in Threads |-> {}]
    /\ rerunReads = <<>>
    /\ viaScope = <<>>
    /\ createdFrom = [s \in 0..0 |-> None]


\* ------------------------------------------------------------- callers
\* A thread at its top level makes its next call.
Idle(t) == stack[t] = <<>> /\ nops[t] < MaxOps

Begin(t, fr) ==
    /\ stack' = [stack EXCEPT ![t] = <<fr>>]
    /\ nops' = [nops EXCEPT ![t] = @ + 1]

\* c.value()
OpValue(t, c) ==
    /\ Idle(t)
    /\ c \in DOMAIN value
    /\ c \in held
    /\ Begin(t, ValueFrame(c, None))
    /\ UNCHANGED <<cellVars, inner, scopeIds, functions, map, functionsLock,
                   mapLock, EFFECT_ID, effectF, rets, histVars>>

\* c.update(f)
OpUpdate(t, c, f) ==
    /\ Idle(t)
    /\ c \in DOMAIN value
    /\ c \in held
    /\ Begin(t, UpdateFrame(c, f))
    /\ UNCHANGED <<cellVars, inner, scopeIds, functions, map, functionsLock,
                   mapLock, EFFECT_ID, effectF, rets, histVars>>

\* c.add_observer(|_| .., |_, _| ..)
OpAddObserver(t, c) ==
    /\ Idle(t)
    /\ c \in DOMAIN value
    /\ c \in held
    /\ Begin(t, AddObserverFrame(c))
    /\ UNCHANGED <<cellVars, inner, scopeIds, functions, map, functionsLock,
                   mapLock, EFFECT_ID, effectF, rets, histVars>>

\* s.effect(b)
OpEffect(t, s, b) ==
    /\ Idle(t)
    /\ s \in DOMAIN functions
    /\ CellsOf(b) \subseteq held
    /\ ScopesOf(b) \subseteq DOMAIN functions
    /\ Begin(t, EffectFrame(s, b))
    /\ UNCHANGED <<cellVars, inner, scopeIds, functions, map, functionsLock,
                   mapLock, EFFECT_ID, effectF, rets, histVars>>

\* s.reactive(v): Reactive::new(v), then add_observer(get_listen, set_listen)
\* on the new cell, whose lock nobody else can hold yet.
OpReactive(t, s, v) ==
    /\ Idle(t)
    /\ s \in DOMAIN functions
    /\ NextCell < MaxCells
    /\ NewCell(v, <<Listen(s)>>, ID)
    /\ ID' = ID + 1
    /\ nops' = [nops EXCEPT ![t] = @ + 1]
    /\ UNCHANGED <<scopeIds, functions, map, functionsLock, mapLock,
                   EFFECT_ID, effectF, stack, rets, histVars>>

\* Reactive::new(v): a cell of no scope, with no observer.
OpNew(t, v) ==
    /\ Idle(t)
    /\ NextCell < MaxCells
    /\ NewCell(v, <<>>, ID)
    /\ ID' = ID + 1
    /\ nops' = [nops EXCEPT ![t] = @ + 1]
    /\ UNCHANGED <<scopeIds, functions, map, functionsLock, mapLock,
                   EFFECT_ID, effectF, stack, rets, histVars>>

\* ------------------------------------------------------------- Reactive
\* add_observer: inner.write(), push both observers, drop the guard.
StepAddObserver(t) ==
    /\ At(t, "add_observer", "lock")
    /\ LET c == Top(t).c IN
       /\ CanWrite(inner[c], t)
       /\ getter_observers' = [getter_observers EXCEPT ![c] = Append(@, Plain)]
       /\ setter_observers' = [setter_observers EXCEPT ![c] = Append(@, Plain)]
    /\ stack' = [stack EXCEPT ![t] = Pop(@)]
    /\ UNCHANGED <<cellIds, value, inner, scopeIds, functions, map, functionsLock,
                   mapLock, EFFECT_ID, effectF, rets, nops, histVars>>

\* value: self.inner.read()
StepValueLock(t) ==
    /\ At(t, "value", "lock")
    /\ LET fr == Top(t) IN
       /\ CanRead(inner[fr.c], t)
       /\ inner' = [inner EXCEPT ![fr.c] = AcquireRead(@, t)]
       /\ stack' = [stack EXCEPT ![t] =
                       SetTop(@, [fr EXCEPT !.pc = "obs", !.i = 1])]
       /\ initReads' = IF fr.e = None THEN initReads
                       ELSE [initReads EXCEPT ![fr.e] = @ \cup {fr.c}]
       /\ rerunReads' = IF fr.e = None /\ Caller(stack[t]) # None
                        THEN [rerunReads EXCEPT ![Caller(stack[t])] = @ \cup {fr.c}]
                        ELSE rerunReads
    /\ UNCHANGED <<cellVars, scopeIds, functions, map, functionsLock, mapLock,
                   EFFECT_ID, effectF, rets, nops, registered, createdBy,
                   retSeen, viaScope>>

\* traverse_getter_observers: the next getter observer is called.
StepValueObserver(t) ==
    /\ At(t, "value", "obs")
    /\ LET fr == Top(t) IN
       /\ fr.i <= Len(getter_observers[fr.c])
       /\ LET obs == getter_observers[fr.c][fr.i]
              st  == SetTop(stack[t], [fr EXCEPT !.i = @ + 1])
          IN  stack' = [stack EXCEPT ![t] =
                           IF obs.kind = "listen"
                           THEN Push(st, GetListenFrame(obs.s, fr.c))
                           ELSE st]
    /\ UNCHANGED <<cellVars, inner, scopeIds, functions, map, functionsLock,
                   mapLock, EFFECT_ID, effectF, rets, nops, histVars>>

\* self.value.clone(); the read guard is dropped when value returns.
StepValueReturn(t) ==
    /\ At(t, "value", "obs")
    /\ LET fr == Top(t) IN
       /\ fr.i > Len(getter_observers[fr.c])
       /\ ret' = [ret EXCEPT ![t] = value[fr.c]]
       /\ retSeen' = [retSeen EXCEPT ![t] = fr.seen]
       /\ inner' = [inner EXCEPT ![fr.c] = ReleaseRead(@, t)]
    /\ stack' = [stack EXCEPT ![t] = Pop(@)]
    /\ UNCHANGED <<cellVars, scopeIds, functions, map, functionsLock, mapLock,
                   EFFECT_ID, effectF, gotParent, nops, initReads, registered,
                   createdBy, rerunReads, viaScope>>

\* update: self.inner.write(); f is then evaluated under the write guard,
\* and a transform that reads a cell calls its value().
StepUpdateLock(t) ==
    /\ At(t, "update", "lock")
    /\ LET fr == Top(t) IN
       /\ CanWrite(inner[fr.c], t)
       /\ inner' = [inner EXCEPT ![fr.c] = AcquireWrite(@, t)]
       /\ LET st == SetTop(stack[t], [fr EXCEPT !.pc = "apply"])
          IN  stack' = [stack EXCEPT ![t] =
                           IF fr.f.op = "readplus"
                           THEN Push(st, ValueFrame(fr.f.d, Owner(stack[t])))
                           ELSE st]
    /\ UNCHANGED <<cellVars, scopeIds, functions, map, functionsLock, mapLock,
                   EFFECT_ID, effectF, rets, nops, histVars>>

\* A slip: no comparison, every update stores and reports Some(old).
InnerUpdateAlways(f, x, r) ==
    [some |-> TRUE, value |-> Apply(f, x, r), old |-> x]

\* ReactiveInner::update: Some(old) and the new value stored when they
\* differ, None otherwise.
InnerUpdate(f, x, r) ==
    LET new_value == Apply(f, x, r)
    IN  IF new_value # x
        THEN [some |-> TRUE, value |-> new_value, old |-> x]
        ELSE [some |-> FALSE, value |-> x, old |-> x]

\* The value() calls in progress on cell c have seen it hold v.
Observe(st, c, v) ==
    [j \in 1..Len(st) |->
        IF st[j].k = "value" /\ st[j].c = c
        THEN [st[j] EXCEPT !.seen = @ \cup {v}] ELSE st[j]]

\* The write guard is dropped at the end of the statement.
StepUpdateApply(t) ==
    /\ At(t, "update", "apply")
    /\ LET fr == Top(t)
           u  == InnerUpdate(fr.f, value[fr.c], ret[t])
       IN
       /\ value' = [value EXCEPT ![fr.c] = u.value]
       /\ inner' = [inner EXCEPT ![fr.c] = ReleaseWrite(@, t)]
       /\ stack' = [x \in Threads |->
              Observe(IF x = t
                      THEN SetTop(stack[t],
                             [fr EXCEPT !.pc = IF u.some THEN "rlock" ELSE "ret",
                                        !.changed = u.some,
                                        !.n1 = Len(setter_observers[fr.c]),
                                        !.old = u.old,
                                        !.new = Apply(fr.f, u.old, ret[t])])
                      ELSE stack[x],
                      fr.c, u.value)]
    /\ UNCHANGED <<cellIds, getter_observers, setter_observers, scopeIds, functions,
                   map, functionsLock, mapLock, EFFECT_ID, effectF, rets, nops,
                   histVars>>

\* if let Some(old_value) = option { self.inner.read() .. }
StepUpdateReadLock(t) ==
    /\ At(t, "update", "rlock")
    /\ LET fr == Top(t) IN
       /\ CanRead(inner[fr.c], t)
       /\ inner' = [inner EXCEPT ![fr.c] = AcquireRead(@, t)]
       /\ stack' = [stack EXCEPT ![t] =
                       SetTop(@, [fr EXCEPT !.pc = "obs", !.i = 1])]
    /\ UNCHANGED <<cellVars, scopeIds, functions, map, functionsLock, mapLock,
                   EFFECT_ID, effectF, rets, nops, histVars>>

\* A slip: the two arguments in the wrong order.
SetterArgsSwapped(cur, old) == <<old, cur>>

\* The arguments traverse_setter_observers passes: (&self.value, old_value).
SetterArgs(cur, old) == <<cur, old>>

\* traverse_setter_observers: the next setter observer is called.
StepUpdateObserver(t) ==
    /\ At(t, "update", "obs")
    /\ LET fr == Top(t) IN
       /\ fr.i <= Len(setter_observers[fr.c])
       /\ LET obs == setter_observers[fr.c][fr.i]
              st  == SetTop(stack[t],
                        [fr EXCEPT !.i = @ + 1,
                                   !.fired = Append(@, <<fr.i>> \o SetterArgs(value[fr.c], fr.old))])
          IN  stack' = [stack EXCEPT ![t] =
                           IF obs.kind = "listen"
                           THEN Push(st, SetListenFrame(obs.s, fr.c))
                           ELSE st]
    /\ UNCHANGED <<cellVars, inner, scopeIds, functions, map, functionsLock,
                   mapLock, EFFECT_ID, effectF, rets, nops, histVars>>

\* All setter observers were called: the read guard is dropped.
StepUpdateUnlock(t) ==
    /\ At(t, "update", "obs")
    /\ LET fr == Top(t) IN
       /\ fr.i > Len(setter_observers[fr.c])
       /\ inner' = [inner EXCEPT ![fr.c] = ReleaseRead(@, t)]
       /\ stack' = [stack EXCEPT ![t] = SetTop(@, [fr EXCEPT !.pc = "ret"])]
    /\ UNCHANGED <<cellVars, scopeIds, functions, map, functionsLock, mapLock,
                   EFFECT_ID, effectF, rets, nops, histVars>>

\* update returns to its caller.
StepUpdateReturn(t) ==
    /\ At(t, "update", "ret")
    /\ stack' = [stack EXCEPT ![t] = Pop(@)]
    /\ UNCHANGED <<cellVars, inner, scopeIds, functions, map, functionsLock,
                   mapLock, EFFECT_ID, effectF, rets, nops, histVars>>


\* ------------------------------------------------------------- Scope
\* HashMap::insert(id, HashSet::new()): the entry is created or replaced.
InsertEmpty(m, c) ==
    [x \in DOMAIN m \cup {c} |-> IF x = c THEN {} ELSE m[x]]

\* A slip: the entry is overwritten by the singleton instead of extended.
InsertEffectReplace(m, c, e) == [m EXCEPT ![c] = {e}]

\* get_mut(&id).unwrap().insert(effect)
InsertEffect(m, c, e) == [m EXCEPT ![c] = @ \cup {e}]

\* A slip: functions.first() instead of functions.last().
FirstEffect(fs) == fs[1]

\* The effect get_listen records: functions.last().
LastEffect(fs) == fs[Len(fs)]

\* get_listen: functions.read().last().  The read guard of `functions`
\* lives as long as the `if let` body; with an empty stack nothing is done.
StepGetListenLast(t) ==
    /\ At(t, "get_listen", "last")
    /\ LET fr == Top(t) IN
       /\ CanRead(functionsLock[fr.s], t)
       /\ IF functions[fr.s] = <<>>
          THEN /\ stack' = [stack EXCEPT ![t] = Pop(@)]
               /\ UNCHANGED functionsLock
          ELSE /\ functionsLock' =
                      [functionsLock EXCEPT ![fr.s] = AcquireRead(@, t)]
               /\ stack' = [stack EXCEPT ![t] =
                      SetTop(@, [fr EXCEPT !.pc = "contains",
                                           !.e = LastEffect(functions[fr.s])])]
    /\ UNCHANGED <<cellVars, inner, scopeIds, functions, map, mapLock,
                   EFFECT_ID, effectF, rets, nops, histVars>>

\* if !map.read().unwrap().contains_key(&id): the guard is dropped with
\* the condition.
StepGetListenContains(t) ==
    /\ At(t, "get_listen", "contains")
    /\ LET fr == Top(t) IN
       /\ CanRead(mapLock[fr.s], t)
       /\ stack' = [stack EXCEPT ![t] =
              SetTop(@, [fr EXCEPT !.pc = IF id[fr.c] \in DOMAIN map[fr.s]
                                          THEN "insert" ELSE "init"])]
    /\ UNCHANGED <<cellVars, inner, scopeIds, functions, map, functionsLock,
                   mapLock, EFFECT_ID, effectF, rets, nops, histVars>>

\* The map.write() of either statement of the listener's body: the write
\* guard is taken.
StepGetListenWrite(t) ==
    /\ stack[t] # <<>>
    /\ LET fr == Top(t) IN
       /\ fr.k = "get_listen" /\ fr.pc \in {"init", "insert"}
       /\ CanWrite(mapLock[fr.s], t)
       /\ mapLock' = [mapLock EXCEPT ![fr.s] = AcquireWrite(@, t)]
       /\ stack' = [stack EXCEPT ![t] =
              SetTop(@, [fr EXCEPT !.pc = IF fr.pc = "init"
                                          THEN "init_w" ELSE "insert_w"])]
    /\ UNCHANGED <<cellVars, inner, scopeIds, functions, map, functionsLock,
                   EFFECT_ID, effectF, rets, nops, histVars>>

\* .insert(id.clone(), HashSet::new()); the write guard is dropped at the
\* end of the statement.
StepGetListenInit(t) ==
    /\ At(t, "get_listen", "init_w")
    /\ LET fr == Top(t) IN
       /\ map' = [map EXCEPT ![fr.s] = InsertEmpty(@, id[fr.c])]
       /\ mapLock' = [mapLock EXCEPT ![fr.s] = ReleaseWrite(@, t)]
       /\ stack' = [stack EXCEPT ![t] = SetTop(@, [fr EXCEPT !.pc = "insert"])]
    /\ UNCHANGED <<cellVars, inner, scopeIds, functions, functionsLock,
                   EFFECT_ID, effectF, rets, nops, histVars>>

\* .get_mut(&id).unwrap().insert(effect.clone()); the write guard is
\* dropped, the listener returns and the read guard of `functions` is
\* dropped.
StepGetListenInsert(t) ==
    /\ At(t, "get_listen", "insert_w")
    /\ LET fr == Top(t) IN
       /\ id[fr.c] \in DOMAIN map[fr.s]
       /\ map' = [map EXCEPT ![fr.s] = InsertEffect(@, id[fr.c], fr.e)]
       /\ mapLock' = [mapLock EXCEPT ![fr.s] = ReleaseWrite(@, t)]
       /\ functionsLock' = [functionsLock EXCEPT ![fr.s] = ReleaseRead(@, t)]
    /\ stack' = [stack EXCEPT ![t] = Pop(@)]
    /\ UNCHANGED <<cellVars, inner, scopeIds, functions, EFFECT_ID,
                   effectF, rets, nops, histVars>>

\* A slip: the listener ignores its id and calls the effects of every entry.
SubscribersOfAll(m, c) == UNION {m[x] : x \in DOMAIN m}

\* A slip: the listener finds no entry and calls nothing.
SubscribersNone(m, c) == {}

\* The effects set_listen calls for cell c: map.get(&id).
Subscribers(m, c) == IF c \in DOMAIN m THEN m[c] ELSE {}

\* set_listen: if let Some(effects) = map.read().unwrap().get(&id).  The
\* read guard of `map` lives as long as the `if let` body.
StepSetListenGet(t) ==
    /\ At(t, "set_listen", "get")
    /\ LET fr == Top(t) IN
       /\ CanRead(mapLock[fr.s], t)
       /\ IF id[fr.c] \notin DOMAIN map[fr.s]
          THEN /\ stack' = [stack EXCEPT ![t] = Pop(@)]
               /\ UNCHANGED mapLock
          ELSE /\ mapLock' = [mapLock EXCEPT ![fr.s] = AcquireRead(@, t)]
               /\ stack' = [stack EXCEPT ![t] =
                      SetTop(@, [fr EXCEPT !.pc = "iter",
                                           !.todo = Subscribers(map[fr.s], id[fr.c]),
                                           !.pre = Subscribers(map[fr.s], id[fr.c])])]
    /\ UNCHANGED <<cellVars, inner, scopeIds, functions, map, functionsLock,
                   EFFECT_ID, effectF, rets, nops, histVars>>

\* Every update call in progress on st has now had effect e invoked.
MarkInvoked(st, e) ==
    [j \in 1..Len(st) |->
        IF st[j].k = "update" THEN [st[j] EXCEPT !.inv = @ \cup {e}] ELSE st[j]]

\* A slip: the write-listener pushes the effect it calls.
ReinvokePushed(fs, e) == Append(fs, e)

\* The effect stack when the write-listener calls effect e: effect.call()
\* alone, nothing is pushed.
Reinvoke(fs, e) == fs

\* effects.iter().for_each(|effect| effect.call()): the next effect of the
\* set, in the HashSet's order, is called.
StepSetListenCall(t) ==
    /\ At(t, "set_listen", "iter")
    /\ LET fr == Top(t) IN
       \E e \in fr.todo :
          /\ stack' = [stack EXCEPT ![t] =
                 Push(MarkInvoked(SetTop(@, [fr EXCEPT !.todo = @ \ {e}]), e),
                      CallFrame(e, effectF[e], FALSE))]
          /\ functions' = [functions EXCEPT ![fr.s] = Reinvoke(@, e)]
    /\ UNCHANGED <<cellVars, inner, scopeIds, map, functionsLock,
                   mapLock, EFFECT_ID, effectF, rets, nops, histVars>>

\* All effects of the set were called: the read guard of `map` is dropped.
StepSetListenReturn(t) ==
    /\ At(t, "set_listen", "iter")
    /\ LET fr == Top(t) IN
       /\ fr.todo = {}
       /\ mapLock' = [mapLock EXCEPT ![fr.s] = ReleaseRead(@, t)]
    /\ stack' = [stack EXCEPT ![t] = Pop(@)]
    /\ UNCHANGED <<cellVars, inner, scopeIds, functions, map, functionsLock,
                   EFFECT_ID, effectF, rets, nops, histVars>>

\* effect: Effect::new(Arc::new(f)) takes the next EFFECT_ID.
StepEffectNew(t) ==
    /\ At(t, "effect", "new")
    /\ LET fr == Top(t)
           e  == EFFECT_ID
       IN
       /\ EFFECT_ID' = e + 1
       /\ effectF' = [x \in 0..e |-> IF x = e THEN fr.b ELSE effectF[x]]
       /\ initReads' = [x \in 0..e |-> IF x = e THEN {} ELSE initReads[x]]
       /\ createdBy' = [x \in 0..e |->
                           IF x = e THEN Caller(stack[t]) ELSE createdBy[x]]
       /\ rerunReads' = [x \in 0..e |-> IF x = e THEN {} ELSE rerunReads[x]]
       /\ viaScope' = [x \in 0..e |-> IF x = e THEN fr.s ELSE viaScope[x]]
       /\ stack' = [stack EXCEPT ![t] =
              SetTop(@, [fr EXCEPT !.pc = "push", !.e = e])]
    /\ UNCHANGED <<cellVars, inner, scopeIds, functions, map, functionsLock,
                   mapLock, rets, nops, registered, retSeen>>

\* self.functions.write().unwrap().push(effect.clone()); effect.call()
StepEffectPush(t) ==
    /\ At(t, "effect", "push")
    /\ LET fr == Top(t) IN
       /\ CanWrite(functionsLock[fr.s], t)
       /\ functions' = [functions EXCEPT ![fr.s] = Append(@, fr.e)]
       /\ stack' = [stack EXCEPT ![t] =
              Push(SetTop(@, [fr EXCEPT !.pc = "pop"]),
                   CallFrame(fr.e, effectF[fr.e], TRUE))]
    /\ UNCHANGED <<cellVars, inner, scopeIds, map, functionsLock, mapLock,
                   EFFECT_ID, effectF, rets, nops, histVars>>

\* Vec::pop: the last element goes, if there is one.
VecPop(v) == IF v = <<>> THEN v ELSE SubSeq(v, 1, Len(v) - 1)

\* self.functions.write().unwrap().pop(); effect returns.
StepEffectPop(t) ==
    /\ At(t, "effect", "pop")
    /\ LET fr == Top(t) IN
       /\ CanWrite(functionsLock[fr.s], t)
       /\ functions' = [functions EXCEPT ![fr.s] = VecPop(@)]
       /\ registered' = registered \cup {fr.e}
    /\ stack' = [stack EXCEPT ![t] = Pop(@)]
    /\ UNCHANGED <<cellVars, inner, scopeIds, map, functionsLock, mapLock,
                   EFFECT_ID, effectF, rets, nops, initReads, createdBy, retSeen,
                   rerunReads, viaScope>>

\* ------------------------------------------------------------- Effect::call
\* (self.f)(): the closure's next statement is a c.value(), which is
\* called if the statement's condition holds.
StepCallRead(t) ==
    /\ At(t, "call", "run")
    /\ LET fr == Top(t) IN
       /\ fr.i <= Len(fr.b)
       /\ fr.b[fr.i].op = "read"
       /\ LET st == SetTop(stack[t], [fr EXCEPT !.i = @ + 1])
          IN  stack' = [stack EXCEPT ![t] =
                  IF Holds(fr.b[fr.i].when, ret[t])
                  THEN Push(st, ValueFrame(fr.b[fr.i].c, Owner(stack[t])))
                  ELSE st]
    /\ UNCHANGED <<cellVars, inner, scopeIds, functions, map, functionsLock,
                   mapLock, EFFECT_ID, effectF, rets, nops, histVars>>

\* The closure's next statement is a c.update(f).
StepCallUpdate(t) ==
    /\ At(t, "call", "run")
    /\ LET fr == Top(t) IN
       /\ fr.i <= Len(fr.b)
       /\ fr.b[fr.i].op = "update"
       /\ LET f == IF fr.b[fr.i].f.op = "captured"
                   THEN Const(ret[t]) ELSE fr.b[fr.i].f
          IN  stack' = [stack EXCEPT ![t] =
                  Push(SetTop(@, [fr EXCEPT !.i = @ + 1]),
                       UpdateFrame(fr.b[fr.i].c, f))]
    /\ UNCHANGED <<cellVars, inner, scopeIds, functions, map, functionsLock,
                   mapLock, EFFECT_ID, effectF, rets, nops, histVars>>

\* The closure's next statement is a scope.effect(b).
StepCallEffect(t) ==
    /\ At(t, "call", "run")
    /\ LET fr == Top(t) IN
       /\ fr.i <= Len(fr.b)
       /\ fr.b[fr.i].op = "effect"
       /\ stack' = [stack EXCEPT ![t] =
              Push(SetTop(@, [fr EXCEPT !.i = @ + 1]),
                   EffectFrame(fr.b[fr.i].s, fr.b[fr.i].b))]
    /\ UNCHANGED <<cellVars, inner, scopeIds, functions, map, functionsLock,
                   mapLock, EFFECT_ID, effectF, rets, nops, histVars>>

\* The closure returns.
StepCallReturn(t) ==
    /\ At(t, "call", "run")
    /\ Top(t).i > Len(Top(t).b)
    /\ stack' = [stack EXCEPT ![t] = Pop(@)]
    /\ UNCHANGED <<cellVars, inner, scopeIds, functions, map, functionsLock,
                   mapLock, EFFECT_ID, effectF, rets, nops, histVars>>

\* ------------------------------------------------------------- write()
\* The state of the lock a request or a guard is about.
LockOf(g) ==
    CASE g.on = "cell" -> inner[g.id]
      [] g.on = "functions" -> functionsLock[g.id]
      [] g.on = "map" -> mapLock[g.id]
      [] OTHER -> Unlocked

\* The lock the call of frame fr asks for with write() next (on = "none"
\* when its next step is no write()).
WriteRequest(fr) ==
    CASE fr.k \in {"update", "add_observer"} /\ fr.pc = "lock" ->
             [on |-> "cell", id |-> fr.c, w |-> TRUE]
      [] fr.k = "get_listen" /\ fr.pc \in {"init", "insert"} ->
             [on |-> "map", id |-> fr.s, w |-> TRUE]
      [] fr.k = "effect" /\ fr.pc \in {"push", "pop"} ->
             [on |-> "functions", id |-> fr.s, w |-> TRUE]
      [] OTHER -> [on |-> "none", id |-> None, w |-> FALSE]

\* The write() of thread t's next step finds the lock taken: the thread
\* marks the lock and sleeps until an unlock wakes it.
StepWriteWait(t) ==
    /\ stack[t] # <<>>
    /\ LET rq == WriteRequest(Top(t)) IN
       /\ rq.on # "none"
       /\ ~CanWrite(LockOf(rq), t)
       /\ ~LockOf(rq).q
       /\ inner' = IF rq.on = "cell"
                   THEN [inner EXCEPT ![rq.id] = WriteWait(@)] ELSE inner
       /\ mapLock' = IF rq.on = "map"
                     THEN [mapLock EXCEPT ![rq.id] = WriteWait(@)] ELSE mapLock
       /\ functionsLock' =
              IF rq.on = "functions"
              THEN [functionsLock EXCEPT ![rq.id] = WriteWait(@)]
              ELSE functionsLock
    /\ UNCHANGED <<cellVars, scopeIds, functions, map, EFFECT_ID, effectF,
                   stack, rets, nops, histVars>>

\* ------------------------------------------------------------- specification
\* One step of a call in progress on thread t.
Step(t) ==
    \/ StepWriteWait(t)
    \/ StepAddObserver(t)
    \/ StepValueLock(t)
    \/ StepValueObserver(t)
    \/ StepValueReturn(t)
    \/ StepUpdateLock(t)
    \/ StepUpdateApply(t)
    \/ StepUpdateReadLock(t)
    \/ StepUpdateObserver(t)
    \/ StepUpdateUnlock(t)
    \/ StepUpdateReturn(t)
    \/ StepGetListenLast(t)
    \/ StepGetListenContains(t)
    \/ StepGetListenWrite(t)
    \/ StepGetListenInit(t)
    \/ StepGetListenInsert(t)
    \/ StepSetListenGet(t)
    \/ StepSetListenCall(t)
    \/ StepSetListenReturn(t)
    \/ StepEffectNew(t)
    \/ StepEffectPush(t)
    \/ StepEffectPop(t)
    \/ StepCallRead(t)
    \/ StepCallUpdate(t)
    \/ StepCallEffect(t)
    \/ StepCallReturn(t)

InitValues == {0, 1}

\* The next call thread t makes from its top level.
Op(t) ==
    \/ \E c \in 0..(MaxCells - 1) : OpValue(t, c)
    \/ \E c \in 0..(MaxCells - 1), f \in Transforms : OpUpdate(t, c, f)
    \/ \E c \in 0..(MaxCells - 1) : OpAddObserver(t, c)
    \/ \E b \in Bodies : OpEffect(t, 0, b)
    \/ \E v \in InitValues : OpReactive(t, 0, v)
    \/ \E v \in InitValues : OpNew(t, v)

\* A single caller: every call is made by thread 1.
Next == Op(1) \/ Step(1)

Spec == Init /\ [][Next]_vars

Callers == {1, 2}

\* Two callers.  Thread 1 registers effects and updates and reads the two
\* cells of Init; thread 2 updates and reads them and adds observers.
BodiesMT == {ReadBody(0), WriteBody(1), NestBody(0, 1)}

OpMT(t) ==
    \/ \E c \in {0, 1} : nops[t] < MaxOpsMT /\ OpValue(t, c)
    \/ \E c \in {0, 1} : nops[t] < MaxOpsMT /\ OpUpdate(t, c, Inc)
    \/ \E c \in {0, 1} : nops[t] < MaxOpsMT /\ t = 2 /\ OpAddObserver(t, c)
    \/ \E b \in BodiesMT : nops[t] < MaxOpsMT /\ t = 1 /\ OpEffect(t, 0, b)

NextMT == \E t \in Callers : OpMT(t) \/ Step(t)

SpecMT == Init /\ [][NextMT]_vars

\* Three callers, for the calls of value(): threads 1 and 2 read the first
\* cell of Init, once each; thread 3 updates it, adds observers to it and
\* registers effects.
OpReaders(t) ==
    \/ nops[t] = 0 /\ t \in Callers /\ OpValue(t, 0)
    \/ nops[t] < MaxOpsMT /\ t = 3 /\ OpUpdate(t, 0, Inc)
    \/ nops[t] < MaxOpsMT /\ t = 3 /\ OpAddObserver(t, 0)
    \/ \E b \in BodiesMT : nops[t] < MaxOpsMT /\ t = 3 /\ OpEffect(t, 0, b)

NextReaders == \E t \in Threads : OpReaders(t) \/ Step(t)

SpecReaders == Init /\ [][NextReaders]_vars

\* ------------------------------------------------------------- Default
\* u64::default(), the number in the ReactiveId of a derived default.
DefaultId == 0

\* T::default() for the integer cells of the model.
DefaultValue == 0

\* Reactive::default(), derived: inner and id are the defaults of their
\* types, so the cell has no observer and ID is not consulted.
OpDefault(t) ==
    /\ Idle(t)
    /\ NextCell < MaxCells
    /\ NewCell(DefaultValue, <<>>, DefaultId)
    /\ nops' = [nops EXCEPT ![t] = @ + 1]
    /\ UNCHANGED <<ID, scopeIds, functions, map, functionsLock, mapLock,
                   EFFECT_ID, effectF, stack, rets, histVars>>

\* The closures registered by a caller that also constructs cells by
\* Default.
BodiesId == BodiesMT \cup {ResetBody(0)}

\* A single caller that also constructs cells by Default.
OpId(t) ==
    \/ OpDefault(t)
    \/ \E v \in InitValues : OpNew(t, v)
    \/ \E v \in InitValues : OpReactive(t, 0, v)
    \/ \E c \in 0..(MaxCells - 1) : OpValue(t, c)
    \/ \E c \in 0..(MaxCells - 1) : OpUpdate(t, c, Inc)
    \/ \E c \in 0..(MaxCells - 1) : OpAddObserver(t, c)
    \/ \E b \in BodiesId : OpEffect(t, 0, b)

NextId == OpId(1) \/ Step(1)

SpecId == Init /\ [][NextId]_vars

\* ------------------------------------------------------------- drop
\* drop(c), for every handle of cell c the callers hold: from now on only
\* the clones that closures captured are left.
OpDrop(t, c) ==
    /\ Idle(t)
    /\ c \in held
    /\ held' = held \ {c}
    /\ nops' = [nops EXCEPT ![t] = @ + 1]
    /\ UNCHANGED <<ID, id, value, getter_observers, setter_observers, inner,
                   scopeIds, functions, map, functionsLock, mapLock,
                   EFFECT_ID, effectF, stack, rets, histVars>>

\* The closures registered by a caller that also drops handles.
BodiesDrop ==
    {ReadBody(0), CopyBody(0, 1), WriteBody(1), NestBody(0, 1), ResetBody(0)}

\* A single caller that also drops its handles of cells.
OpDropping(t) ==
    \/ \E c \in 0..(MaxCells - 1) : OpDrop(t, c)
    \/ \E c \in 0..(MaxCells - 1) : OpValue(t, c)
    \/ \E c \in 0..(MaxCells - 1) : OpUpdate(t, c, Inc)
    \/ \E c \in 0..(MaxCells - 1) : OpAddObserver(t, c)
    \/ \E b \in BodiesDrop : OpEffect(t, 0, b)
    \/ \E v \in InitValues : OpReactive(t, 0, v)

NextDrop == OpDropping(1) \/ Step(1)

SpecDrop == Init /\ [][NextDrop]_vars

\* ------------------------------------------------------------- scope tree
\* A slip: the child gets the parent of self instead of self.
ParentOfChildStale(s) == parent[s]

\* create_child: parent: Some(self.clone())
ParentOfChild(s) == s

\* s.create_child(): a scope with a stack and a map of its own and the
\* next scope id.
OpCreateChild(t, s) ==
    /\ Idle(t)
    /\ s \in DOMAIN parent
    /\ SCOPE_ID < MaxScopes
    /\ LET n == SCOPE_ID IN
       /\ SCOPE_ID' = n + 1
       /\ parent' = [x \in 0..n |-> IF x = n THEN ParentOfChild(s) ELSE parent[x]]
       /\ functions' = [x \in 0..n |-> IF x = n THEN <<>> ELSE functions[x]]
       /\ map' = [x \in 0..n |-> IF x = n THEN <<>> ELSE map[x]]
       /\ functionsLock' =
              [x \in 0..n |-> IF x = n THEN Unlocked ELSE functionsLock[x]]
       /\ mapLock' = [x \in 0..n |-> IF x = n THEN Unlocked ELSE mapLock[x]]
       /\ createdFrom' = [x \in 0..n |-> IF x = n THEN s ELSE createdFrom[x]]
    /\ nops' = [nops EXCEPT ![t] = @ + 1]
    /\ UNCHANGED <<cellVars, inner, EFFECT_ID, effectF, stack, rets, histVars>>

\* Scope::new(): a root, with an empty stack and map and the next scope id.
OpScopeNew(t) ==
    /\ Idle(t)
    /\ SCOPE_ID < MaxScopes
    /\ LET n == SCOPE_ID IN
       /\ SCOPE_ID' = n + 1
       /\ parent' = [x \in 0..n |-> IF x = n THEN None ELSE parent[x]]
       /\ functions' = [x \in 0..n |-> IF x = n THEN <<>> ELSE functions[x]]
       /\ map' = [x \in 0..n |-> IF x = n THEN <<>> ELSE map[x]]
       /\ functionsLock' =
              [x \in 0..n |-> IF x = n THEN Unlocked ELSE functionsLock[x]]
       /\ mapLock' = [x \in 0..n |-> IF x = n THEN Unlocked ELSE mapLock[x]]
       /\ createdFrom' = [x \in 0..n |-> IF x = n THEN None ELSE createdFrom[x]]
    /\ nops' = [nops EXCEPT ![t] = @ + 1]
    /\ UNCHANGED <<cellVars, inner, EFFECT_ID, effectF, stack, rets, histVars>>

\* get_parent: Some(parent.clone()) or None.
GetParent(s) == parent[s]

\* s.get_parent()
OpGetParent(t, s) ==
    /\ Idle(t)
    /\ s \in DOMAIN parent
    /\ gotParent' = [gotParent EXCEPT ![t] = [of |-> s, is |-> GetParent(s)]]
    /\ nops' = [nops EXCEPT ![t] = @ + 1]
    /\ UNCHANGED <<cellVars, inner, scopeIds, functions, map, functionsLock,
                   mapLock, EFFECT_ID, effectF, stack, ret, histVars>>

\* The closures registered while there are several scopes: over the two
\* cells of Init and the first cell made after them.
BodiesTree ==
    {ReadBody(c) : c \in 0..2}
    \cup {WriteBody(0), NestBody(0, 2), NestBody(1, 0), ResetBody(0)}

\* A single caller that also makes child scopes, makes cells and effects
\* through any scope, and asks for parents.
OpTree(t) ==
    \/ OpScopeNew(t)
    \/ \E s \in 0..(MaxScopes - 1) : OpCreateChild(t, s)
    \/ \E s \in 0..(MaxScopes - 1) : OpGetParent(t, s)
    \/ \E s \in 0..(MaxScopes - 1) : OpReactive(t, s, 0)
    \/ \E s \in 0..(MaxScopes - 1), b \in BodiesTree : OpEffect(t, s, b)
    \/ \E c \in 0..(MaxCells - 1) : OpUpdate(t, c, Inc)
    \/ \E c \in 0..(MaxCells - 1) : OpValue(t, c)
    \/ \E c \in 0..(MaxCells - 1) : OpAddObserver(t, c)

NextTree == OpTree(1) \/ Step(1)

SpecTree == Init /\ [][NextTree]_vars


\* ------------------------------------------------------------- waiting
\* Thread t holds lock l itself, so that its own write request on l can
\* never be granted.
HoldsAny(l, t) == l.w = t \/ l.r[t] > 0

\* Thread t's next step takes a cell's lock that t itself holds in a mode
\* that excludes the request: t waits for itself.
CellSelfDeadlock(t) ==
    /\ stack[t] # <<>>
    /\ LET fr == Top(t) IN
       \/ /\ fr.k \in {"update", "add_observer"} /\ fr.pc = "lock"
          /\ HoldsAny(inner[fr.c], t)
       \/ /\ (fr.k = "value" /\ fr.pc = "lock") \/ (fr.k = "update" /\ fr.pc = "rlock")
          /\ inner[fr.c].w = t

\* The same for the lock around the scope's dependency map.
MapSelfDeadlock(t) ==
    /\ stack[t] # <<>>
    /\ LET fr == Top(t) IN
       \/ /\ fr.k = "get_listen" /\ fr.pc \in {"init", "insert"}
          /\ HoldsAny(mapLock[fr.s], t)
       \/ /\ (fr.k = "get_listen" /\ fr.pc = "contains") \/ (fr.k = "set_listen" /\ fr.pc = "get")
          /\ mapLock[fr.s].w = t

\* The same for the lock around the scope's effect stack.
FunctionsSelfDeadlock(t) ==
    /\ stack[t] # <<>>
    /\ LET fr == Top(t) IN
       \/ /\ fr.k = "effect" /\ fr.pc \in {"push", "pop"}
          /\ HoldsAny(functionsLock[fr.s], t)
       \/ /\ fr.k = "get_listen" /\ fr.pc = "last"
          /\ functionsLock[fr.s].w = t

SelfDeadlock(t) ==
    CellSelfDeadlock(t) \/ MapSelfDeadlock(t) \/ FunctionsSelfDeadlock(t)

\* The dependency set of cell c in scope s (empty when c has no entry).
Deps(s, c) == IF id[c] \in DOMAIN map[s] THEN map[s][id[c]] ELSE {}

\* The positions <<t, j>> of the update calls in progress.
Updates ==
    UNION {{<<t, j>> : j \in {i \in 1..Len(stack[t]) : stack[t][i].k = "update"}} :
              t \in Threads}

\* The update calls in progress that are about to return.
Returning ==
    {stack[p[1]][p[2]] : p \in {q \in Updates : stack[q[1]][q[2]].pc = "ret"}}

\* ------------------------------------------------------------- claims
\* C1: an effect that read cell C in its initial run (directly, or after a
\* nested effect() call of its closure returned) and whose effect() call
\* has returned is invoked by every later C.update that changes the value:
\* the write-listener of that update finds it in C's set, and the update
\* does not return before it was invoked.
C1_ReaderInvokedBeforeReturn ==
    /\ \A fr \in Returning : fr.changed => fr.pre \subseteq fr.inv
    /\ \A p \in Updates :
          LET st == stack[p[1]] IN
          (/\ p[2] < Len(st)
           /\ st[p[2] + 1].k = "set_listen"
           /\ st[p[2] + 1].pc = "iter")
          => st[p[2]].pre \subseteq (st[p[2]].inv \cup st[p[2] + 1].todo)

\* An update that changed its cell returns having invoked the two effects
\* that had read the cell.
C1_Witness ==
    \E fr \in Returning :
        fr.changed /\ Cardinality(fr.pre) >= 2 /\ fr.pre \subseteq fr.inv

\* C2: the write-listener of cell C invokes only effects whose closure
\* read C during the effect's initial run.
C2_OnlyReadersInvoked ==
    \A t \in Threads : \A j \in 1..Len(stack[t]) :
        (stack[t][j].k = "call" /\ ~stack[t][j].init)
        => /\ j > 1
           /\ stack[t][j - 1].k = "set_listen"
           /\ stack[t][j - 1].c \in initReads[stack[t][j].e]

\* An update that changed its cell returns having invoked a reader, while
\* a registered effect that never read the cell was not invoked.
C2_Witness ==
    \E fr \in Returning :
        /\ fr.changed
        /\ fr.inv # {}
        /\ \E e \in registered : fr.c \notin initReads[e] /\ e \notin fr.inv

\* C3: when an update with f(old) # old returns, the cell holds f(old) and
\* every write-observer registered before the call was invoked exactly
\* once, with the arguments (f(old), old).
C3_ChangedUpdateNotifiesOnce ==
    \A fr \in Returning :
        fr.new # fr.old =>
            /\ value[fr.c] = fr.new
            /\ \A i \in 1..fr.n0 :
                  /\ Cardinality({n \in 1..Len(fr.fired) : fr.fired[n][1] = i}) = 1
                  /\ \A n \in 1..Len(fr.fired) :
                        fr.fired[n][1] = i => fr.fired[n] = <<i, fr.new, fr.old>>

\* An update that changed a cell with two write-observers returns.
C3_Witness ==
    \E fr \in Returning : fr.new # fr.old /\ fr.n0 = 2 /\ Len(fr.fired) = 2

\* C4: when an update with f(old) = old returns, the cell still holds old,
\* no write-observer was invoked, and no effect was re-run by it.
C4_EqualUpdateIsSilent ==
    \A fr \in Returning :
        fr.new = fr.old =>
            /\ value[fr.c] = fr.old
            /\ fr.fired = <<>>
            /\ fr.inv = {}
            /\ ~fr.changed

\* A value-equal update of a cell with a subscribed effect returns.
C4_Witness ==
    \E fr \in Returning :
        /\ fr.new = fr.old
        /\ fr.n0 >= 1
        /\ Deps(0, fr.c) # {}

\* The scenario of C5: the only effect ever created is
\* scope.effect(|| r2.update(|_| r.value() + 10)), with r cell 0 and r2
\* cell 1, and the caller is inside a later r.update(g).
C5_Scenario(t) ==
    /\ EFFECT_ID = 1
    /\ effectF[0] = DeriveBody(0, 1)
    /\ 0 \in registered
    /\ stack[t] # <<>>
    /\ stack[t][1].k = "update"
    /\ stack[t][1].c = 0

\* C5: in that scenario r.update never waits for a lock its own thread
\* holds, and when an r.update that changed r returns, r2 = r + 10.
C5_DerivedCellFollows ==
    \A t \in Threads :
        C5_Scenario(t) =>
            /\ ~SelfDeadlock(t)
            /\ (Len(stack[t]) = 1 /\ stack[t][1].pc = "ret" /\ stack[t][1].changed)
               => value[1] = value[0] + 10

\* The second successive r.update that changed r returns with r2 = r + 10.
C5_Witness ==
    \E t \in Threads :
        /\ C5_Scenario(t)
        /\ Len(stack[t]) = 1 /\ stack[t][1].pc = "ret" /\ stack[t][1].changed
        /\ value[0] = 2
        /\ value[1] = 12

\* Thread t is running an effect that cell c's write notification invoked
\* (the call frame sits on set_listen(c), under the update of c).
InsideNotificationOf(t, c) ==
    \E j \in 1..Len(stack[t]) :
        /\ stack[t][j].k = "update" /\ stack[t][j].c = c /\ stack[t][j].pc = "obs"
        /\ j + 2 <= Len(stack[t])
        /\ stack[t][j + 1].k = "set_listen"
        /\ stack[t][j + 2].k = "call"

\* C6: an effect invoked in-line by cell A's write notification reads A
\* or calls A.update without its thread waiting for A's lock that the
\* thread itself holds.
C6_ReentrantCellNoDeadlock ==
    \A t \in Threads :
        ~(/\ CellSelfDeadlock(t)
          /\ InsideNotificationOf(t, Top(t).c))

\* C7: an effect's closure calls effect() or update, in its initial run or
\* when re-invoked by a write-listener, without its thread waiting for the
\* effect-stack lock or the dependency-map lock that the thread itself
\* holds.
C7_ScopeLocksNoDeadlock ==
    \A t \in Threads :
        ~(/\ MapSelfDeadlock(t) \/ FunctionsSelfDeadlock(t)
          /\ \E j \in 1..Len(stack[t]) : stack[t][j].k = "call")

\* C8: scope.effect(|| { scope.effect(|| r.value()); }) never waits for a
\* lock its own thread holds, and once the inner effect() has returned the
\* inner effect, and not the outer one, is in r's dependency set.
C8_NestedRecordsInner ==
    /\ \A t \in Threads :
          (/\ stack[t] # <<>>
           /\ stack[t][1].k = "effect"
           /\ \E c \in {0, 1} : stack[t][1].b = NestBody(0, c))
          => ~SelfDeadlock(t)
    /\ \A e \in registered : \A c \in {0, 1} :
          (/\ createdBy[e] # None
           /\ effectF[createdBy[e]] = NestBody(0, c))
          => /\ e \in Deps(0, c)
             /\ createdBy[e] \notin Deps(0, c)

\* The nested registration has returned with the inner effect recorded.
C8_Witness ==
    \E e \in registered :
        /\ createdBy[e] # None
        /\ createdBy[e] \in registered
        /\ effectF[createdBy[e]] = NestBody(0, 1)
        /\ e \in Deps(0, 1)

\* The update of cell c by thread t has stored its value and has not
\* finished its notification pass.
Notifying(t, c) ==
    \E j \in 1..Len(stack[t]) :
        /\ stack[t][j].k = "update"
        /\ stack[t][j].c = c
        /\ stack[t][j].pc \in {"rlock", "obs"}

\* C9: two update calls of different threads on one cell are serialized
\* as wholes: while one has stored its value and not finished its
\* notification pass the other has not stored its value, and every pass
\* reports its own update's pair (new, old).
C9_UpdatesSerialized ==
    /\ \A c \in DOMAIN value : \A t, u \in Threads :
          t # u => ~(Notifying(t, c) /\ Notifying(u, c))
    /\ \A p \in Updates :
          LET fr == stack[p[1]][p[2]] IN
          \A n \in 1..Len(fr.fired) :
              fr.fired[n] = <<fr.fired[n][1], fr.new, fr.old>>

\* C10: an update invokes no observer that was registered after the update
\* had stored its value.
C10_LateObserverNotInvoked ==
    \A p \in Updates :
        LET fr == stack[p[1]][p[2]] IN
        \A n \in 1..Len(fr.fired) : fr.fired[n][1] <= fr.n1

\* ------------------------------------------------------------- value() calls
\* Thread t is executing a value() call: value itself, or the read-listener
\* value called.
InValue(t) == stack[t] # <<>> /\ Top(t).k \in {"value", "get_listen"}

\* The lock the next step of thread t's value() call takes, and whether
\* exclusively (on = "none" when the step takes no lock).
Request(t) ==
    LET fr == Top(t) IN
    CASE fr.k = "value" /\ fr.pc = "lock" ->
             [on |-> "cell", id |-> fr.c, w |-> FALSE]
      [] fr.k = "get_listen" /\ fr.pc = "last" ->
             [on |-> "functions", id |-> fr.s, w |-> FALSE]
      [] fr.k = "get_listen" /\ fr.pc = "contains" ->
             [on |-> "map", id |-> fr.s, w |-> FALSE]
      [] fr.k = "get_listen" /\ fr.pc \in {"init", "insert"} ->
             [on |-> "map", id |-> fr.s, w |-> TRUE]
      [] OTHER -> [on |-> "none", id |-> None, w |-> FALSE]

\* The guards the value() call in progress on thread u holds.
GuardsOfValue(u) ==
    LET fr == Top(u) IN
    (IF fr.k = "get_listen" \/ fr.pc = "obs"
     THEN {[on |-> "cell", id |-> fr.c, w |-> FALSE]} ELSE {})
    \cup (IF fr.k = "get_listen" /\ fr.pc # "last"
          THEN {[on |-> "functions", id |-> fr.s, w |-> FALSE]} ELSE {})
    \cup (IF fr.k = "get_listen" /\ fr.pc \in {"init_w", "insert_w"}
          THEN {[on |-> "map", id |-> fr.s, w |-> TRUE]} ELSE {})

\* The lock thread t's value() call asks for next can be had now.
Grantable(t) ==
    LET r == Request(t)
    IN  IF r.w THEN CanWrite(LockOf(r), t) ELSE CanRead(LockOf(r), t)

\* The value() call of thread t, on the same cell as the value() call of
\* thread u, cannot go on because of a guard the call of u holds, or
\* because the call of u sleeps in a write() on the lock t asks for.
ValueWaitsForValue(t, u) ==
    /\ InValue(t) /\ InValue(u) /\ Top(t).c = Top(u).c
    /\ ~Grantable(t)
    /\ \/ \E g \in GuardsOfValue(u) :
             g.on = Request(t).on /\ g.id = Request(t).id
       \/ /\ WriteRequest(Top(u)).on = Request(t).on
          /\ WriteRequest(Top(u)).id = Request(t).id
          /\ LockOf(Request(t)).q

\* Every value() that returned gave a value the cell held during the call.
ReturnedValueWasHeld ==
    \A t \in Threads : retSeen[t] # {} => ret[t] \in retSeen[t]

\* C11: concurrent value() calls of several threads on one cell (a scope
\* cell read while an effect is on the scope's stack included) never wait
\* for one another, and each returns a value the cell held at some moment
\* between the call's start and its return.
C11_ReadersNeverWait ==
    /\ \A t \in Threads : \A u \in Threads \ {t} : ~ValueWaitsForValue(t, u)
    /\ ReturnedValueWasHeld

\* C11, amended: concurrent value() calls on one cell wait for one another
\* on the cell's lock or on the effect stack's lock only behind a write()
\* that sleeps on that lock (a reader that came before it holds the lock,
\* the one that came after it is refused); while an effect is on the
\* scope's stack the read-listener of one call waits for the write guard
\* the read-listener of the other holds, or sleeps for, on the dependency
\* map.  Each call returns a value the cell held during the call.
C11_ReadersWaitOnlyForMap ==
    /\ \A t \in Threads : \A u \in Threads \ {t} :
          ValueWaitsForValue(t, u) =>
             LET l == LockOf(Request(t)) IN
             \/ /\ Request(t).on = "map"
                /\ functions[Request(t).id] # <<>>
                /\ l.w = u \/ l.q
             \/ /\ Request(t).on \in {"cell", "functions"}
                /\ l.w = None
                /\ l.q
    /\ ReturnedValueWasHeld

\* Two value() calls hold the read guard of one cell together while one of
\* them waits for the map; a value() before saw its cell change and
\* returned.
C11_Witness ==
    \E t \in Threads : \E u \in Threads \ {t} :
       /\ ValueWaitsForValue(t, u)
       /\ inner[Top(t).c].r[t] > 0 /\ inner[Top(t).c].r[u] > 0
       /\ \E x \in Threads : Cardinality(retSeen[x]) >= 2

\* ------------------------------------------------------------- scope lineage
\* create_child and get_parent leave the effect stack and the dependency
\* map of every scope there is as they were.
LineageStepKeepsScopes ==
    \A t \in Threads : \A s \in DOMAIN parent :
       (OpCreateChild(t, s) \/ OpGetParent(t, s)) =>
          \A x \in DOMAIN parent :
             functions'[x] = functions[x] /\ map'[x] = map[x]

\* C12: for every scope s, s.create_child().get_parent() is s itself (the
\* same scope id) at every depth of the lineage, get_parent of a scope made
\* by Scope::new is none, and neither operation changes the effect stack or
\* the dependency map of any scope.
C12_ParentOfChildIsSelf ==
    /\ [](\A t \in Threads :
            gotParent[t].of # None =>
               gotParent[t].is = createdFrom[gotParent[t].of])
    /\ [][LineageStepKeepsScopes]_vars

\* get_parent was called on the child of a child and gave the child.
C12_Witness ==
    \E t \in Threads :
       LET g == gotParent[t] IN
       /\ g.of # None /\ g.is # None
       /\ createdFrom[g.of] = g.is
       /\ createdFrom[g.is] # None
       /\ createdFrom[createdFrom[g.is]] = None

\* ------------------------------------------------------------- scope locks
\* Thread t is executing the closure of an effect: its innermost frame is
\* an Effect::call.
InClosure(t) == stack[t] # <<>> /\ Top(t).k = "call"

\* C13: in every reachable state no thread holds the lock of a scope's
\* effect stack or of its dependency map, shared or exclusive, while it is
\* executing an effect closure, be it the initial run or a run invoked by a
\* write-listener.
C13_NoScopeLockInClosure ==
    \A t \in Threads : \A s \in DOMAIN functions :
       InClosure(t) =>
          ~HoldsAny(functionsLock[s], t) /\ ~HoldsAny(mapLock[s], t)

\* ------------------------------------------------------------- dependencies
\* C14: an effect E is in the dependency set of cell C only if E's own
\* closure read C while E was on the effect stack; a read of C outside any
\* effect (a read by another thread while some effect is being registered
\* included) adds no entry and no effect to the map.
C14_RecordedOnlyByOwnRead ==
    \A s \in DOMAIN map : \A c \in DOMAIN value :
       /\ \A e \in Deps(s, c) : c \in initReads[e]
       /\ id[c] \in DOMAIN map[s] =>
             \E e \in DOMAIN effectF : c \in initReads[e]

\* Every entry of every dependency map is still there after the step, with
\* at least the effects it had.
SetsGrow ==
    \A s \in DOMAIN map : \A k \in DOMAIN map[s] :
       k \in DOMAIN map'[s] /\ map[s][k] \subseteq map'[s][k]

\* C15: while a cell is alive its dependency set only grows: no operation,
\* under any interleaving of threads (the read-listener's contains_key
\* check followed by its insert of an empty set included), ever removes an
\* effect that was recorded.
C15_DependencySetsOnlyGrow == [][SetsGrow]_vars

\* ------------------------------------------------------------- re-invocation
\* The effects whose effect() call is between its push and its pop on
\* stack st of a thread, for scope s, outermost first.
Registering(st, s) ==
    LET fs == SelectSeq(st, LAMBDA fr :
                  fr.k = "effect" /\ fr.pc = "pop" /\ fr.s = s)
    IN  [j \in 1..Len(fs) |-> fs[j].e]

\* The write-listener calls in progress.
SetListens ==
    UNION {{stack[t][j] : j \in {i \in 1..Len(stack[t]) :
                                    stack[t][i].k = "set_listen"
                                    /\ stack[t][i].pc = "iter"}} :
              t \in Threads}

\* C16: a re-invoked effect is not pushed on the effect stack, so its
\* dependencies stay as its initial run fixed them: an effect E whose
\* re-run reads a cell D that its initial run did not read is not added to
\* D's set and no write-listener of D calls it, and an update that changes
\* a cell E read in its initial run invokes E before it returns, whatever
\* E reads now.
C16_DependenciesFixedByInitialRun ==
    /\ \A s \in DOMAIN functions : functions[s] = Registering(stack[1], s)
    /\ \A e \in DOMAIN effectF : \A d \in rerunReads[e] \ initReads[e] :
          /\ \A s \in DOMAIN map : e \notin Deps(s, d)
          /\ \A fr \in SetListens : fr.c = d => e \notin fr.pre
    /\ \A fr \in Returning : fr.changed => fr.pre \subseteq fr.inv

\* An effect read cell D when re-invoked and not in its initial run, and an
\* update that changed D is returning without having invoked it.
C16_Witness ==
    \E fr \in Returning : \E e \in registered :
       /\ fr.changed
       /\ fr.c \in rerunReads[e] \ initReads[e]
       /\ e \notin fr.inv

\* ------------------------------------------------------------- cycles
\* The dependency graph is cyclic: an effect that reads cell 0 and writes
\* cell 1 is in the set of cell 0, one that reads cell 1 and writes cell 0
\* is in the set of cell 1, and each write changes the value written.
Cyclic ==
    \E e1 \in Deps(0, 0) : \E e2 \in Deps(0, 1) :
       effectF[e1] = DeriveBody(0, 1) /\ effectF[e2] = DeriveBody(1, 0)

\* The update calls in progress on thread t that changed cell c.
ChangingUpdates(t, c) ==
    {j \in 1..Len(stack[t]) :
        stack[t][j].k = "update" /\ stack[t][j].c = c /\ stack[t][j].changed}

\* C17: with a cyclic dependency graph an update of A re-enters the
\* effects in-line with no cycle or depth guard: the nesting goes on
\* growing (the thread is never stopped) and the update never returns.
C17_CycleNestsWithoutBound ==
    \A t \in Threads :
       (Cyclic /\ ChangingUpdates(t, 0) # {}) =>
          /\ ~SelfDeadlock(t)
          /\ \A j \in ChangingUpdates(t, 0) : stack[t][j].pc # "ret"

\* ------------------------------------------------------------- scopes apart
\* The scope whose reactive() made cell c (None for a cell of no scope).
CellScope(c) ==
    IF getter_observers[c] # <<>> /\ getter_observers[c][1].kind = "listen"
    THEN getter_observers[c][1].s ELSE None

\* An effect() call on scope s is in progress on stack st.
EffectOn(st, s) == \E j \in 1..Len(st) : st[j].k = "effect" /\ st[j].s = s

\* The stack and the map of a scope change only during an effect() call on
\* that scope.
OtherScopesKept ==
    \A s \in DOMAIN functions :
       (\A t \in Threads : ~EffectOn(stack[t], s)) =>
          functions'[s] = functions[s] /\ map'[s] = map[s]

\* C18: a child scope and its parent share no dependency state: effect()
\* on one scope never changes the stack or the map of the other, and an
\* effect registered through scope X that reads a cell made by another
\* scope Y records nothing in X's map and is not recorded in Y's map
\* (while Y's own stack is not empty the read records Y's effect).
C18_ScopesShareNothing ==
    /\ [](\A s \in DOMAIN functions :
            /\ \A j \in 1..Len(functions[s]) : viaScope[functions[s][j]] = s
            /\ \A c \in DOMAIN value :
                  /\ id[c] \in DOMAIN map[s] => CellScope(c) = s
                  /\ \A e \in Deps(s, c) : viaScope[e] = s)
    /\ [][OtherScopesKept]_vars

\* The effect() call of an effect that read a cell of another scope has
\* returned, and the effect is in no set of that cell.
C18_Witness ==
    \E e \in registered : \E c \in initReads[e] :
       /\ CellScope(c) \notin {None, viaScope[e]}
       /\ \A s \in DOMAIN map : e \notin Deps(s, c)
       /\ \E d \in DOMAIN value : \E s \in DOMAIN map : Deps(s, d) # {}

\* ------------------------------------------------------------- identity
\* PartialEq for Reactive: self.id == other.id, the numbers compared.
HandleEq(c, d) == id[c] = id[d]

\* C19: cell identity is unique per cell: every cell, constructed by
\* Reactive::new or by the derived Default, has an id no other cell has,
\* so two handles are equal if and only if they are handles of the same
\* cell, whatever the values.
C19_CellIdsUnique ==
    \A c \in DOMAIN value : \A d \in DOMAIN value : HandleEq(c, d) <=> c = d

\* ------------------------------------------------------------- lifetimes
\* The effects something holds: those in the sets of the dependency maps
\* (the callers keep their scopes), on the effect stacks, and in the calls
\* in progress.
LiveEffects ==
    UNION {UNION {map[s][k] : k \in DOMAIN map[s]} : s \in DOMAIN map}
    \cup UNION {{functions[s][j] : j \in 1..Len(functions[s])} :
                   s \in DOMAIN functions}
    \cup UNION {{stack[t][j].e : j \in {i \in 1..Len(stack[t]) :
                                          stack[t][i].k \in {"effect", "call"}
                                          /\ stack[t][i].e # None}} :
                   t \in Threads}

\* A handle of cell c exists: the callers hold one, or the closure of a
\* held effect captured one.  The cell is destroyed, and the Weak key of
\* its map entry expired, when none exists.
Alive(c) ==
    c \in held \/ \E e \in LiveEffects : c \in CellsOf(effectF[e])

\* C20: the dependency map does not keep cells alive: once the callers
\* have dropped every handle they hold of a cell C, C is destroyed and its
\* entry is expired, also when effects that read C, whose closures captured
\* a clone of C's handle, are recorded in the map.
C20_MapKeepsNoCellAlive ==
    \A c \in DOMAIN value : c \notin held => ~Alive(c)
====
